---- MODULE Spec2Model ----
(***************************************************************************)
(* A model of src/app.py, the AI Share of Voice analyzer: the resilient    *)
(* caller generate_content_with_retry, the step 5 scoring handler and the   *)
(* button handlers of steps 1 to 4.                                        *)
(*                                                                         *)
(* Text is a sequence of atoms: " " is one whitespace character, "," one   *)
(* comma, "\n" one line break, "*" one asterisk, and any other atom is an   *)
(* indivisible run of other characters (a word such as "Acme").  str.strip and str.split are computed  *)
(* on that representation.                                                 *)
(*                                                                         *)
(* Floating-point amounts are integers in hundredths (4.5 is 450).  Every  *)
(* score of the program is a multiple of 0.5, so its sums are exact in     *)
(* binary floating point; percentages are hundredths of a percent after    *)
(* round(x, 2).                                                            *)
(***************************************************************************)
EXTENDS Integers, Sequences, FiniteSets, TLC

VARIABLES
    \* st.session_state
    step, client, brand, competitors, raw_responses, analysis_details, results,
    \* the step 5 handler: its position and its locals
    spc, idx, brand_scores, total_tracked_score, current_query_score,
    detected_brands_details, rank, last,
    \* the calls of generate_content_with_retry the running analysis has made
    extractor_calls,
    \* one invocation of generate_content_with_retry; in the handlers, result is
    \* the value the latest invocation returned
    max_retries, attempt, rpc, trace, result,
    \* st.session_state, the fields of steps 1 to 3
    industry, user_queries,
    \* the successful clicks of the save button so far
    restarts,
    \* the list elements the structured analysis can return in this run
    entry_pool

session_vars == <<step, client, brand, competitors, raw_responses, analysis_details, results>>

scoring_vars == <<spc, idx, brand_scores, total_tracked_score, current_query_score,
                  detected_brands_details, rank, last, extractor_calls>>

retry_vars == <<max_retries, attempt, rpc, trace, result>>

pipeline_vars == <<industry, user_queries, restarts, entry_pool>>

vars == <<session_vars, scoring_vars, retry_vars, pipeline_vars>>

----------------------------------------------------------------------------
\* Bounds of the model.

\* the largest max_retries an invocation is given
MaxRetries == 5

\* the longest list the structured extraction returns
MaxEntries == 4

\* how often the settings are saved in one session
MaxRestarts == 2

----------------------------------------------------------------------------
\* Text helpers.

RECURSIVE LStrip(_)
LStrip(s) == IF s # <<>> /\ Head(s) = " " THEN LStrip(Tail(s)) ELSE s

RECURSIVE RStrip(_)
RStrip(s) == IF s # <<>> /\ s[Len(s)] = " " THEN RStrip(SubSeq(s, 1, Len(s) - 1)) ELSE s

\* str.strip(): leading and trailing whitespace removed
Strip(s) == RStrip(LStrip(s))

RECURSIVE Split(_, _)
\* str.split(sep): the pieces between the separators, empty pieces kept
Split(s, sep) ==
    IF \A i \in 1..Len(s) : s[i] # sep
    THEN <<s>>
    ELSE LET k == CHOOSE i \in 1..Len(s) : s[i] = sep /\ \A j \in 1..(i - 1) : s[j] # sep
         IN  <<SubSeq(s, 1, k - 1)>> \o Split(SubSeq(s, k + 1, Len(s)), sep)

RECURSIVE StripNonEmpty(_)
\* [c.strip() for c in pieces if c.strip()]
StripNonEmpty(pieces) ==
    IF pieces = <<>> THEN <<>>
    ELSE IF Strip(Head(pieces)) # <<>>
         THEN <<Strip(Head(pieces))>> \o StripNonEmpty(Tail(pieces))
         ELSE StripNonEmpty(Tail(pieces))

\* final_competitors, recomputed from the brand list text on every script run
final_competitors == StripNonEmpty(Split(competitors, ","))

\* final_queries, recomputed from the query text on every script run
final_queries == StripNonEmpty(Split(user_queries, "\n"))

Range(f) == {f[i] : i \in DOMAIN f}

RECURSIVE Pow2(_)
Pow2(n) == IF n = 0 THEN 1 ELSE 2 * Pow2(n - 1)

----------------------------------------------------------------------------
\* generate_content_with_retry

\* what one call of client.models.generate_content can do
Outcomes == {"content", "empty_candidate", "api_error", "unexpected"}

\* the text of a candidate; the empty text is a text
Texts == {"", "text1", "text2"}

None == [ok |-> FALSE, text |-> ""]

Returned(t) == [ok |-> TRUE, text |-> t]

CallEvent(o, t) == [kind |-> "call", outcome |-> o, text |-> t, seconds |-> 0]

SleepEvent(n) == [kind |-> "sleep", outcome |-> "", text |-> "", seconds |-> n]

\* time.sleep happens only when another attempt remains
MoreAttemptsOffByOne(a, n) == a < n

MoreAttempts(a, n) == a < n - 1

\* wait_time = 2 ** attempt
WaitTimeLinear(a) == 2 * a

WaitTime(a) == Pow2(a)

\* one pass of the loop body with a single except clause: every failure is
\* handled as the transient API error is
RetryCallOneExceptClause ==
    /\ rpc = "call"
    /\ attempt < max_retries
    /\ \E o \in Outcomes, t \in Texts :
        /\ (o # "content") => t = ""
        /\ trace' = Append(trace, CallEvent(o, t))
        /\ IF o = "content"
           THEN /\ result' = Returned(t)
                /\ rpc' = "done"
           ELSE IF attempt < max_retries - 1
                THEN /\ rpc' = "sleep"
                     /\ UNCHANGED result
                ELSE /\ result' = None
                     /\ rpc' = "done"
    /\ UNCHANGED <<max_retries, attempt, session_vars, scoring_vars, pipeline_vars>>

\* one pass of the loop body up to its return or its except clause
RetryCall ==
    /\ rpc = "call"
    /\ attempt < max_retries
    /\ \E o \in Outcomes, t \in Texts :
        /\ (o # "content") => t = ""
        /\ trace' = Append(trace, CallEvent(o, t))
        /\ CASE o = "content" ->
                  /\ result' = Returned(t)
                  /\ rpc' = "done"
             [] o = "empty_candidate" ->
                  /\ result' = None
                  /\ rpc' = "done"
             [] o = "api_error" ->
                  IF MoreAttempts(attempt, max_retries)
                  THEN /\ rpc' = "sleep"
                       /\ UNCHANGED result
                  ELSE /\ result' = None
                       /\ rpc' = "done"
             [] o = "unexpected" ->
                  /\ result' = None
                  /\ rpc' = "done"
    /\ UNCHANGED <<max_retries, attempt, session_vars, scoring_vars, pipeline_vars>>

\* time.sleep(wait_time), then the next iteration
RetrySleep ==
    /\ rpc = "sleep"
    /\ trace' = Append(trace, SleepEvent(WaitTime(attempt)))
    /\ attempt' = attempt + 1
    /\ rpc' = "call"
    /\ UNCHANGED <<max_retries, result, session_vars, scoring_vars, pipeline_vars>>

\* range(max_retries) is exhausted: the return None after the loop
RetryExhausted ==
    /\ rpc = "call"
    /\ attempt >= max_retries
    /\ result' = None
    /\ rpc' = "done"
    /\ UNCHANGED <<max_retries, attempt, trace, session_vars, scoring_vars, pipeline_vars>>

RetryNext == RetryCall \/ RetrySleep \/ RetryExhausted

----------------------------------------------------------------------------
\* Step 5: structured analysis and the share-of-voice computation.

\* the answer stored for a query whose call failed
SENTINEL == "Oshibka polucheniya otveta API"

Acme == <<"Acme">>

Zenith == <<"Zenith">>

Other == <<"Other">>

Positive == <<"Positive">>

Neutral == <<"Neutral">>

Negative == <<"Negative">>

\* base position score of a 0-based rank, in tenths: POSITION_SCORES.get(rank, 0.0)
POSITION_SCORES_Floor(r) == CASE r = 0 -> 30 [] r = 1 -> 20 [] OTHER -> 10

POSITION_SCORES(r) == CASE r = 0 -> 30 [] r = 1 -> 20 [] r = 2 -> 10 [] OTHER -> 0

\* sentiment multiplier, in tenths: SENTIMENT_MULTIPLIERS.get(sentiment, 1.0)
SENTIMENT_MULTIPLIERS_Closed(s) ==
    CASE s = Positive -> 15 [] s = Neutral -> 10 [] s = Negative -> 0 [] OTHER -> 0

SENTIMENT_MULTIPLIERS(s) ==
    CASE s = Positive -> 15 [] s = Neutral -> 10 [] s = Negative -> 0 [] OTHER -> 10

\* one element of the parsed JSON list.  kind "object" is a JSON object whose
\* present fields are strings; any other element (a string, a number, an object
\* with a non-string field) makes .get or .strip raise AttributeError.
Entry(k, hn, n, hs, s) ==
    [kind |-> k, has_brandName |-> hn, brandName |-> n, has_sentiment |-> hs, sentiment |-> s]

EntryPool ==
    { Entry("object", TRUE, Acme, TRUE, Positive),
      Entry("object", TRUE, Zenith, FALSE, <<>>),
      Entry("object", TRUE, Acme, TRUE, Negative),
      Entry("object", TRUE, <<" ", "Acme", " ">>, TRUE, <<"Mixed", " ">>),
      Entry("object", TRUE, Other, TRUE, Positive),
      Entry("object", FALSE, <<>>, TRUE, Neutral),
      Entry("string", FALSE, <<>>, FALSE, <<>>) }

\* what generate_content_with_retry hands back to the analysis and how json.loads
\* takes it: no result, an empty text, text that is not JSON, JSON that is not a
\* list, a JSON list
Extractions == {"none", "empty", "invalid_json", "not_a_list", "list"}

\* brand_entry.get('brandName', '').strip()
EntryBrand(e) == Strip(IF e.has_brandName THEN e.brandName ELSE <<>>)

\* brand_entry.get('sentiment', 'Neutral').strip()
EntrySentiment(e) == Strip(IF e.has_sentiment THEN e.sentiment ELSE Neutral)

\* final_score = base_score * multiplier, in hundredths
FinalScore(r, s) == POSITION_SCORES(r) * SENTIMENT_MULTIPLIERS(s)

\* brand_name_ranked in final_competitors and final_score > 0
CountedAlsoZero(name, score) == name \in Range(final_competitors)

CountedAnyBrand(name, score) == score > 0

Counted(name, score) == name \in Range(final_competitors) /\ score > 0

NoLast ==
    [valid |-> FALSE, rank |-> 0, brandName |-> <<>>, sentiment |-> <<>>,
     base_score |-> 0, multiplier |-> 0, final_score |-> 0]

\* the accumulators when a brand's total of an earlier run is kept
ZeroScoresKeepEarlierTotals ==
    [b \in {Strip(c) : c \in Range(final_competitors)} |->
        IF b \in DOMAIN brand_scores THEN brand_scores[b] ELSE 0]

\* brand_scores = {brand.strip(): 0.0 for brand in final_competitors}
ZeroScores == [b \in {Strip(c) : c \in Range(final_competitors)} |-> 0]

NoScores == [b \in {} |-> 0]

\* the formatted per-mention breakdown; position 0 stands for the text shown
\* in place of a position beyond the third
FormatDetails(d) ==
    IF d = <<>>
    THEN [header |-> "not_found_or_zero", lines |-> <<>>]
    ELSE [header |-> "lines",
          lines |-> [k \in 1..Len(d) |->
                        [brandName |-> d[k].brandName,
                         position |-> IF k - 1 < 3 THEN k ELSE 0,
                         sentiment |-> d[k].sentiment,
                         score |-> d[k].score]]]

Detail(item, text, score) ==
    [query |-> item.query, answer |-> item.answer, details |-> text, score |-> score]

\* the record appended for a response that was analysed
AppendAnalysed(d, score) ==
    Append(analysis_details, Detail(raw_responses[idx], FormatDetails(d), score))

\* the step 5 button is drawn (the query list is not empty) and enabled
ScoringGuard == spc = "idle" /\ final_queries # <<>> /\ step = 5 /\ raw_responses # <<>>

\* the button with an empty brand list: an error message and nothing else
ScoreNoCompetitors ==
    /\ ScoringGuard
    /\ final_competitors = <<>>
    /\ UNCHANGED vars

\* the button when the report of an earlier run is kept
ScoreBeginKeepsDetails ==
    /\ ScoringGuard
    /\ final_competitors # <<>>
    /\ client
    /\ brand_scores' = ZeroScores
    /\ total_tracked_score' = 0
    /\ idx' = 1
    /\ spc' = "loop"
    /\ current_query_score' = 0
    /\ detected_brands_details' = <<>>
    /\ rank' = 0
    /\ last' = NoLast
    /\ extractor_calls' = 0
    /\ UNCHANGED <<step, client, brand, competitors, raw_responses, analysis_details, results,
                   retry_vars, pipeline_vars>>

\* the button when the brand list is not checked
ScoreBeginUnchecked ==
    /\ ScoringGuard
    /\ client
    /\ brand_scores' = ZeroScores
    /\ total_tracked_score' = 0
    /\ analysis_details' = <<>>
    /\ idx' = 1
    /\ spc' = "loop"
    /\ current_query_score' = 0
    /\ detected_brands_details' = <<>>
    /\ rank' = 0
    /\ last' = NoLast
    /\ extractor_calls' = 0
    /\ UNCHANGED <<step, client, brand, competitors, raw_responses, results, retry_vars, pipeline_vars>>

\* the button: the counters are initialised and the report is reset
ScoreBegin ==
    /\ ScoringGuard
    /\ final_competitors # <<>>
    /\ client
    /\ brand_scores' = ZeroScores
    /\ total_tracked_score' = 0
    /\ analysis_details' = <<>>
    /\ idx' = 1
    /\ spc' = "loop"
    /\ current_query_score' = 0
    /\ detected_brands_details' = <<>>
    /\ rank' = 0
    /\ last' = NoLast
    /\ extractor_calls' = 0
    /\ UNCHANGED <<step, client, brand, competitors, raw_responses, results, retry_vars, pipeline_vars>>

\* a response that holds the sentinel is skipped
SkipsSentinelNever(a) == FALSE

SkipsSentinel(a) == a = SENTINEL

ScoreSkipError ==
    /\ spc = "loop"
    /\ idx <= Len(raw_responses)
    /\ SkipsSentinel(raw_responses[idx].answer)
    /\ analysis_details' =
          Append(analysis_details,
                 Detail(raw_responses[idx], [header |-> "error", lines |-> <<>>], 0))
    /\ idx' = idx + 1
    /\ UNCHANGED <<step, client, brand, competitors, raw_responses, results,
                   spc, brand_scores, total_tracked_score, current_query_score,
                   detected_brands_details, rank, last, extractor_calls, retry_vars, pipeline_vars>>

\* the structured analysis of one response is requested and parsed
ScoreExtract ==
    /\ spc = "loop"
    /\ idx <= Len(raw_responses)
    /\ ~SkipsSentinel(raw_responses[idx].answer)
    /\ extractor_calls' = extractor_calls + 1
    /\ current_query_score' = 0
    /\ detected_brands_details' = <<>>
    /\ rank' = 0
    /\ last' = NoLast
    /\ \E x \in Extractions :
          IF x = "list"
          THEN /\ spc' = "entries"
               /\ UNCHANGED <<analysis_details, idx>>
          ELSE /\ analysis_details' = AppendAnalysed(<<>>, 0)
               /\ idx' = idx + 1
               /\ UNCHANGED spc
    /\ UNCHANGED <<step, client, brand, competitors, raw_responses, results,
                   brand_scores, total_tracked_score, retry_vars, pipeline_vars>>

\* one pass of the loop over the parsed list
ScoreEntry ==
    /\ spc = "entries"
    /\ rank < MaxEntries
    /\ \E e \in entry_pool :
          IF e.kind # "object"
          THEN \* AttributeError: the script run ends here
               /\ spc' = "idle"
               /\ UNCHANGED <<brand_scores, current_query_score,
                              detected_brands_details, rank, last>>
          ELSE LET brand_name_ranked == EntryBrand(e)
                   sentiment == EntrySentiment(e)
                   final_score == FinalScore(rank, sentiment)
               IN  /\ last' = [valid |-> TRUE, rank |-> rank,
                               brandName |-> brand_name_ranked,
                               sentiment |-> sentiment,
                               base_score |-> POSITION_SCORES(rank),
                               multiplier |-> SENTIMENT_MULTIPLIERS(sentiment),
                               final_score |-> final_score]
                   /\ rank' = rank + 1
                   /\ UNCHANGED spc
                   /\ IF Counted(brand_name_ranked, final_score)
                      THEN /\ brand_scores' =
                                 [brand_scores EXCEPT ![brand_name_ranked] = @ + final_score]
                           /\ current_query_score' = current_query_score + final_score
                           /\ detected_brands_details' =
                                 Append(detected_brands_details,
                                        [brandName |-> brand_name_ranked,
                                         sentiment |-> sentiment,
                                         score |-> final_score])
                      ELSE UNCHANGED <<brand_scores, current_query_score,
                                       detected_brands_details>>
    /\ UNCHANGED <<session_vars, idx, total_tracked_score, extractor_calls, retry_vars, pipeline_vars>>

\* the denominator after one response's list
AddToTotalOverwrite(total, score) == IF score > 0 THEN score ELSE total

AddToTotal(total, score) == IF score > 0 THEN total + score ELSE total

\* the list is exhausted: the denominator, the formatted detail, the report
ScoreListEnd ==
    /\ spc = "entries"
    /\ total_tracked_score' = AddToTotal(total_tracked_score, current_query_score)
    /\ analysis_details' = AppendAnalysed(detected_brands_details, current_query_score)
    /\ idx' = idx + 1
    /\ spc' = "loop"
    /\ last' = NoLast
    /\ UNCHANGED <<step, client, brand, competitors, raw_responses, results,
                   brand_scores, current_query_score, detected_brands_details, rank,
                   extractor_calls, retry_vars, pipeline_vars>>

----------------------------------------------------------------------------
\* The final table.

\* round(num / den) to the nearest integer, an exact half to the even one: the
\* value round(x, 2) gives for x = num / den counted in hundredths
RoundHalfEven(num, den) ==
    LET q == num \div den
        r == num % den
    IN  IF 2 * r < den THEN q
        ELSE IF 2 * r > den THEN q + 1
        ELSE IF q % 2 = 0 THEN q ELSE q + 1

\* brand_scores.get(brand_name_original, 0.0)
ScoreOf(b) == IF b \in DOMAIN brand_scores THEN brand_scores[b] ELSE 0

\* sov = (score / total_tracked_score) * 100 when the total is positive, else 0.0;
\* the result is round(sov, 2) in hundredths of a percent
SovPerBrandDenominator(score, total) ==
    IF score > 0 THEN RoundHalfEven(10000 * score, score) ELSE 0

Sov(score, total) == IF total > 0 THEN RoundHalfEven(10000 * score, total) ELSE 0

\* one row of final_data
Row(b) ==
    [brand |-> Strip(b), score |-> ScoreOf(b), sov |-> Sov(ScoreOf(b), total_tracked_score)]

\* final_data: one row for every entry of final_competitors
FinalData == [k \in 1..Len(final_competitors) |-> Row(final_competitors[k])]

\* a is placed before b by sort_values(by = [score, share], ascending = False)
Before(a, b) == a.score > b.score \/ (a.score = b.score /\ a.sov > b.sov)

RECURSIVE Insert(_, _)
\* r goes after every row that is not placed behind it: equal rows keep their order
Insert(sorted, r) ==
    IF sorted = <<>> THEN <<r>>
    ELSE IF Before(r, Head(sorted)) THEN <<r>> \o sorted
         ELSE <<Head(sorted)>> \o Insert(Tail(sorted), r)

RECURSIVE SortValues(_)
SortValues(rows) ==
    IF rows = <<>> THEN <<>>
    ELSE Insert(SortValues(SubSeq(rows, 1, Len(rows) - 1)), rows[Len(rows)])

NoResults == [present |-> FALSE, rows |-> <<>>]

\* every response is processed: the table is built and the run moves to step 6
ScoreFinish ==
    /\ spc = "loop"
    /\ idx > Len(raw_responses)
    /\ results' = [present |-> TRUE, rows |-> SortValues(FinalData)]
    /\ step' = 6
    /\ spc' = "idle"
    /\ UNCHANGED <<client, brand, competitors, raw_responses, analysis_details,
                   idx, brand_scores, total_tracked_score, current_query_score,
                   detected_brands_details, rank, last, extractor_calls, retry_vars, pipeline_vars>>

ScoringNext ==
    \/ ScoreNoCompetitors
    \/ ScoreBegin
    \/ ScoreSkipError
    \/ ScoreExtract
    \/ ScoreEntry
    \/ ScoreListEnd
    \/ ScoreFinish

----------------------------------------------------------------------------
\* Steps 1 to 4: the settings, the queries, the tracked brands, the collection.

Q1 == <<"q1">>

Q2 == <<"q2">>

\* what the user types into the brand field, and into the industry field
BrandInputs == { <<>>, <<" ", "Acme">> }

IndustryInputs == { <<>>, <<"SaaS">> }

\* what a call of generate_content_with_retry hands back to a handler
ReturnValues == { None, Returned(""), Returned("text1") }

\* the truth value Python gives a return value: None and "" are false
Truthy(r) == r.ok /\ r.text # ""

RECURSIVE Join(_, _)
\* sep.join(parts)
Join(parts, sep) ==
    IF parts = <<>> THEN <<>>
    ELSE IF Len(parts) = 1 THEN parts[1]
    ELSE parts[1] \o sep \o Join(Tail(parts), sep)

\* step 1, the save button: it is drawn and enabled on every script run
SaveSettings ==
    /\ spc = "idle"
    /\ \E has_key \in BOOLEAN, b \in BrandInputs, ind \in IndustryInputs, client_ok \in BOOLEAN :
          IF has_key /\ b # <<>> /\ ind # <<>> /\ client_ok
          THEN /\ restarts < MaxRestarts
               /\ client' = TRUE
               /\ brand' = b
               /\ industry' = ind
               /\ step' = 2
               /\ restarts' = restarts + 1
          ELSE UNCHANGED <<client, brand, industry, step, restarts>>
    /\ UNCHANGED <<competitors, raw_responses, analysis_details, results, scoring_vars,
                   retry_vars, user_queries, entry_pool>>

\* what json.loads makes of the generated text
QueryJson ==
    { [kind |-> "invalid_json", list |-> <<>>],
      [kind |-> "not_a_list_of_strings", list |-> <<>>],
      [kind |-> "list", list |-> <<>>],
      [kind |-> "list", list |-> <<Q1, Q2>>] }

\* the generate button when a failed generation sends the session back to step 1
GenerateQueriesFailureRestarts ==
    /\ spc = "idle"
    /\ step = 2
    /\ client
    /\ \E r \in ReturnValues, queries \in QueryJson :
          /\ result' = r
          /\ IF Truthy(r) /\ queries.kind = "list"
             THEN /\ user_queries' = Join(queries.list, <<"\n">>)
                  /\ step' = 3
             ELSE /\ step' = 1
                  /\ UNCHANGED user_queries
    /\ UNCHANGED <<client, brand, competitors, raw_responses, analysis_details, results,
                   scoring_vars, max_retries, attempt, rpc, trace, industry, restarts,
                   entry_pool>>

\* the generate button when it is enabled at every step it is drawn at
GenerateQueriesNeverDisabled ==
    /\ spc = "idle"
    /\ step >= 2
    /\ client
    /\ \E r \in ReturnValues, queries \in QueryJson :
          /\ result' = r
          /\ IF Truthy(r) /\ queries.kind = "list"
             THEN /\ user_queries' = Join(queries.list, <<"\n">>)
                  /\ step' = 3
             ELSE UNCHANGED <<user_queries, step>>
    /\ UNCHANGED <<client, brand, competitors, raw_responses, analysis_details, results,
                   scoring_vars, max_retries, attempt, rpc, trace, industry, restarts,
                   entry_pool>>

\* step 2, the generate button: enabled at step 2 only
GenerateQueries ==
    /\ spc = "idle"
    /\ step = 2
    /\ client
    /\ \E r \in ReturnValues, queries \in QueryJson :
          /\ result' = r
          /\ IF Truthy(r) /\ queries.kind = "list"
             THEN /\ user_queries' = Join(queries.list, <<"\n">>)
                  /\ step' = 3
             ELSE UNCHANGED <<user_queries, step>>
    /\ UNCHANGED <<client, brand, competitors, raw_responses, analysis_details, results,
                   scoring_vars, max_retries, attempt, rpc, trace, industry, restarts,
                   entry_pool>>

\* what the user types into the query text area
QueryTexts ==
    { <<>>,
      Q1,
      <<" ", "\n", "q1", "\n", "q2", " ">> }

\* the query text area, drawn from step 3 on
EditQueries ==
    /\ spc = "idle"
    /\ step >= 3
    /\ user_queries' \in QueryTexts
    /\ UNCHANGED <<step, client, brand, competitors, raw_responses, analysis_details, results,
                   scoring_vars, retry_vars, industry, restarts, entry_pool>>

\* the answers of the discovery call
DiscoveryAnswers ==
    { <<"Zenith", ",", " ", "*", "Acme", "*">>,
      <<"*", ",", " ">> }

\* re.sub(r'["\'*]', '', name)
RemoveQuotes(name) == SelectSeq(name, LAMBDA a : a \notin {"\"", "'", "*"})

\* the brand names of the analysis in the order sorted() gives them
NameOrder == << <<>>, Acme, Other, Zenith >>

\* sorted(list(names))
Sorted(names) == SelectSeq(NameOrder, LAMBDA n : n \in names)

\* unique_brands without the own brand
UniqueBrandsWithoutOwn(own, response) ==
    { Strip(RemoveQuotes(n)) : n \in Range(StripNonEmpty(Split(response, ","))) } \ { <<>> }

\* unique_brands: the trimmed own brand and the cleaned names of the answer
UniqueBrands(own, response) ==
    { Strip(own) } \cup
    ({ Strip(RemoveQuotes(n)) : n \in Range(StripNonEmpty(Split(response, ","))) } \ { <<>> })

\* step 3, the discovery button: drawn when there is a query, enabled at step 3 only
DiscoverCompetitors ==
    /\ spc = "idle"
    /\ step = 3
    /\ final_queries # <<>>
    /\ client
    /\ \E r \in ReturnValues, response \in DiscoveryAnswers :
          /\ result' = r
          /\ IF Truthy(r)
             THEN /\ competitors' = Join(Sorted(UniqueBrands(brand, response)), <<",", " ">>)
                  /\ step' = 4
             ELSE UNCHANGED <<competitors, step>>
    /\ UNCHANGED <<client, brand, raw_responses, analysis_details, results, scoring_vars,
                   max_retries, attempt, rpc, trace, pipeline_vars>>

\* what the user types into the brand list text area
BrandListTexts == { <<>>, <<"Zenith">> }

\* the brand list text area, drawn from step 4 on when there is a query
EditCompetitors ==
    /\ spc = "idle"
    /\ step >= 4
    /\ final_queries # <<>>
    /\ competitors' \in BrandListTexts
    /\ UNCHANGED <<step, client, brand, raw_responses, analysis_details, results, scoring_vars,
                   retry_vars, pipeline_vars>>

\* the collect button without the check of the query list
CollectBeginUnchecked ==
    /\ spc = "idle"
    /\ step = 4
    /\ client
    /\ raw_responses' = <<>>
    /\ idx' = 1
    /\ spc' = "collect"
    /\ UNCHANGED <<step, client, brand, competitors, analysis_details, results, brand_scores,
                   total_tracked_score, current_query_score, detected_brands_details, rank,
                   last, extractor_calls, retry_vars, pipeline_vars>>

\* step 4, the collect button: drawn when there is a query, enabled at step 4 only
CollectBegin ==
    /\ spc = "idle"
    /\ step = 4
    /\ final_queries # <<>>
    /\ client
    /\ raw_responses' = <<>>
    /\ idx' = 1
    /\ spc' = "collect"
    /\ UNCHANGED <<step, client, brand, competitors, analysis_details, results, brand_scores,
                   total_tracked_score, current_query_score, detected_brands_details, rank,
                   last, extractor_calls, retry_vars, pipeline_vars>>

\* what is stored when a failed call is dropped
StoredAnswerDropsFailure(r) == IF Truthy(r) THEN <<r.text>> ELSE <<>>

\* what is stored for a query: the answer text, or the sentinel
StoredAnswer(r) == IF Truthy(r) THEN <<r.text>> ELSE <<SENTINEL>>

\* one pass of the collection loop: one call, one record
CollectQuery ==
    /\ spc = "collect"
    /\ idx <= Len(final_queries)
    /\ \E r \in ReturnValues :
          /\ result' = r
          /\ raw_responses' = raw_responses \o
                 [k \in 1..Len(StoredAnswer(r)) |->
                     [query |-> final_queries[idx], answer |-> StoredAnswer(r)[k]]]
    /\ idx' = idx + 1
    /\ UNCHANGED <<step, client, brand, competitors, analysis_details, results, spc, brand_scores,
                   total_tracked_score, current_query_score, detected_brands_details, rank,
                   last, extractor_calls, max_retries, attempt, rpc, trace, pipeline_vars>>

\* the loop is over: step 5
CollectFinish ==
    /\ spc = "collect"
    /\ idx > Len(final_queries)
    /\ step' = 5
    /\ spc' = "idle"
    /\ UNCHANGED <<client, brand, competitors, raw_responses, analysis_details, results, idx,
                   brand_scores, total_tracked_score, current_query_score,
                   detected_brands_details, rank, last, extractor_calls, retry_vars,
                   pipeline_vars>>

PipelineNext ==
    \/ SaveSettings
    \/ GenerateQueries
    \/ EditQueries
    \/ DiscoverCompetitors
    \/ EditCompetitors
    \/ CollectBegin
    \/ CollectQuery
    \/ CollectFinish
    \/ ScoringNext

----------------------------------------------------------------------------
\* The states the analyses start from.

\* the brand list text area at step 5: what competitor discovery wrote, or what
\* the user typed over it
CompetitorTexts ==
    { <<"Acme", ",", " ", "Zenith">>,
      <<"Acme", ",", " ", "Other", ",", " ", "Zenith">>,
      <<"Acme", ",", "Acme">>,
      <<" ", ",", " ">>,
      <<>> }

Answered(q) == [query |-> q, answer |-> "text1"]

Failed(q) == [query |-> q, answer |-> SENTINEL]

\* what the collection left in raw_responses: one record per query
RawResponseLists ==
    { <<Answered(<<"q1">>)>>,
      <<Failed(<<"q1">>)>>,
      <<Answered(<<"q1">>), Answered(<<"q2">>)>>,
      <<Failed(<<"q1">>), Answered(<<"q2">>)>>,
      <<Answered(<<"q1">>), Failed(<<"q2">>)>> }

IdleScoring ==
    /\ spc = "idle"
    /\ idx = 0
    /\ brand_scores = NoScores
    /\ total_tracked_score = 0
    /\ current_query_score = 0
    /\ detected_brands_details = <<>>
    /\ rank = 0
    /\ last = NoLast
    /\ extractor_calls = 0

IdleRetry ==
    /\ max_retries = 0
    /\ attempt = 0
    /\ rpc = "done"
    /\ trace = <<>>
    /\ result = None

\* step 5 is reached: the responses are collected, the analysis has not run
Init ==
    /\ step = 5
    /\ client = TRUE
    /\ brand = Acme
    /\ competitors \in CompetitorTexts
    /\ raw_responses \in RawResponseLists
    /\ analysis_details = <<>>
    /\ results = NoResults
    /\ IdleScoring
    /\ IdleRetry
    /\ industry = <<"SaaS">>
    /\ user_queries = <<"q1", "\n", "q2">>
    /\ restarts = 1
    /\ entry_pool = EntryPool

Next == ScoringNext

Spec == Init /\ [][Next]_vars

\* the list elements the analysis returns in the sessions that start at step 1
SessionEntryPool ==
    { Entry("object", TRUE, Acme, TRUE, Positive),
      Entry("string", FALSE, <<>>, FALSE, <<>>) }

\* a new session: the state the script builds on its first run
InitPipeline ==
    /\ step = 1
    /\ client = FALSE
    /\ brand = <<>>
    /\ competitors = <<>>
    /\ raw_responses = <<>>
    /\ analysis_details = <<>>
    /\ results = NoResults
    /\ IdleScoring
    /\ IdleRetry
    /\ industry = <<>>
    /\ user_queries = <<>>
    /\ restarts = 0
    /\ entry_pool = SessionEntryPool

SpecPipeline == InitPipeline /\ [][PipelineNext]_vars

\* one invocation of generate_content_with_retry
RetryInit ==
    /\ step = 1
    /\ client = TRUE
    /\ brand = <<>>
    /\ competitors = <<>>
    /\ raw_responses = <<>>
    /\ analysis_details = <<>>
    /\ results = NoResults
    /\ IdleScoring
    /\ max_retries \in 0..MaxRetries
    /\ attempt = 0
    /\ rpc = "call"
    /\ trace = <<>>
    /\ result = None
    /\ industry = <<>>
    /\ user_queries = <<>>
    /\ restarts = 0
    /\ entry_pool = {}

SpecRetry == RetryInit /\ [][RetryNext]_vars

\* the interpreter runs the function on: a call returns or raises, a sleep ends
SpecRetryFair == SpecRetry /\ WF_vars(RetryNext)

----------------------------------------------------------------------------
\* Properties of the scoring step.

Tracked == Range(final_competitors)

\* a step that processes one well-formed entry of the list; last' describes it
EntryStep == spc = "entries" /\ rank' = rank + 1

\* a step that ends one response's list and appends its report record
ListEndStep == spc = "entries" /\ spc' = "loop"

RECURSIVE SumOver(_, _)
SumOver(f, S) ==
    IF S = {} THEN 0
    ELSE LET x == CHOOSE y \in S : TRUE IN f[x] + SumOver(f, S \ {x})

AllLines ==
    UNION {Range(analysis_details[k].details.lines) : k \in DOMAIN analysis_details}

\* the tables of the scoring law as the specification states them, in hundredths
C1_basePosition(r) == CASE r = 0 -> 300 [] r = 1 -> 200 [] r = 2 -> 100

C1_multiplier(s) ==
    CASE s = Positive -> 150 [] s = Neutral -> 100 [] s = Negative -> 0 [] OTHER -> 100

\* C1: an entry at rank 0, 1 or 2 scores basePosition(rank) x multiplier(sentiment),
\* with bases 3.0, 2.0, 1.0, multipliers 1.5, 1.0, 0.0 and 1.0 for any other sentiment.
C1_ScoreLaw ==
    (last.valid /\ last.rank \in 0..2) =>
        100 * last.final_score = C1_basePosition(last.rank) * C1_multiplier(last.sentiment)

\* an entry of unrecognised sentiment was scored at rank 2
C1_Witness ==
    /\ last.valid
    /\ last.rank = 2
    /\ last.sentiment = <<"Mixed">>
    /\ last.final_score = 100

\* C2 as stated: every rank from 2 upward has base position score 1.0, so a tracked
\* brand at rank 3 or beyond with a sentiment other than Negative scores above zero.
C2_FloorForEveryRank ==
    (last.valid /\ last.rank >= 2) =>
        /\ last.base_score = 10
        /\ (last.brandName \in Tracked /\ last.sentiment \in {Positive, Neutral})
              => last.final_score \in {150, 100}

\* C2, amended: rank 2 has base position score 1.0 and every rank from 3 upward has
\* base position score 0.0, so an entry at rank 3 or beyond scores 0 and adds nothing
\* to a brand total, to the per-query score or to the audit detail, whatever its
\* sentiment.
C2_RankThreeOnwardScoresNothing ==
    /\ [](last.valid =>
            /\ (last.rank = 2 => last.base_score = 10)
            /\ (last.rank >= 3 => last.base_score = 0 /\ last.final_score = 0))
    /\ [][(EntryStep /\ rank >= 3) =>
            /\ brand_scores' = brand_scores
            /\ current_query_score' = current_query_score
            /\ detected_brands_details' = detected_brands_details
            /\ total_tracked_score' = total_tracked_score]_vars

\* a tracked brand was mentioned with Positive sentiment at rank 3
C2_Witness ==
    /\ last.valid
    /\ last.rank = 3
    /\ last.brandName = Acme
    /\ Acme \in Tracked
    /\ last.sentiment = Positive
    /\ last.final_score = 0

\* C3 as stated: a Negative mention of a tracked brand adds nothing and is still
\* listed in the audit detail of its response.
C3_NegativeListedInAudit ==
    [][(ListEndStep /\ last.valid /\ last.sentiment = Negative /\ last.brandName \in Tracked) =>
          \E line \in Range(analysis_details'[Len(analysis_details')].details.lines) :
              line.brandName = last.brandName /\ line.sentiment = Negative]_vars

\* C3, amended: a Negative mention of a tracked brand at any rank adds exactly 0 to
\* the brand's total, to the per-query score and so to the denominator, and it is not
\* listed in the audit detail: no line of any audit detail has Negative sentiment or
\* a score of 0.
C3_NegativeAddsNothingAndIsNotListed ==
    /\ [][(EntryStep /\ last'.sentiment = Negative /\ last'.brandName \in Tracked) =>
            /\ last'.final_score = 0
            /\ brand_scores' = brand_scores
            /\ current_query_score' = current_query_score
            /\ total_tracked_score' = total_tracked_score
            /\ detected_brands_details' = detected_brands_details]_vars
    /\ [][ListEndStep =>
            /\ total_tracked_score' = total_tracked_score + current_query_score
            /\ analysis_details'[Len(analysis_details')].score = current_query_score]_vars
    /\ [](\A line \in AllLines : line.sentiment # Negative /\ line.score > 0)

\* a Negative mention of a tracked brand was processed at rank 0: nothing is added
\* and the list of reported mentions is still empty
C3_Witness ==
    /\ spc = "entries"
    /\ last.valid
    /\ last.rank = 0
    /\ last.sentiment = Negative
    /\ last.brandName = Acme
    /\ Acme \in Tracked
    /\ brand_scores[Acme] = 0
    /\ current_query_score = 0
    /\ detected_brands_details = <<>>

\* C4: an entry whose trimmed brandName is not tracked changes no brand total, not the
\* per-query score, not the denominator and not the audit detail, and no key of
\* brand_scores and no row of the final table names a brand outside the tracked list.
C4_UntrackedBrandDropped ==
    /\ [][(EntryStep /\ last'.brandName \notin Tracked) =>
            /\ brand_scores' = brand_scores
            /\ current_query_score' = current_query_score
            /\ total_tracked_score' = total_tracked_score
            /\ detected_brands_details' = detected_brands_details]_vars
    /\ [](/\ spc # "idle" => DOMAIN brand_scores = Tracked
          /\ \A row \in Range(results.rows) : row.brand \in Tracked
          /\ \A line \in AllLines : line.brandName \in Tracked
          /\ \A d \in Range(detected_brands_details) : d.brandName \in Tracked)

\* an untracked brand was mentioned with a sentiment and rank that score above zero
C4_Witness ==
    /\ last.valid
    /\ last.brandName = Other
    /\ Other \notin Tracked
    /\ last.final_score > 0
    /\ current_query_score = 0

\* C5: after each processed response and at the end of the run the denominator is the
\* sum of the brand totals, and every row's share is its score over that denominator.
C5_DenominatorIsSumOfTotals ==
    /\ (spc = "loop" \/ step = 6) =>
          total_tracked_score = SumOver(brand_scores, DOMAIN brand_scores)
    /\ (step = 6 /\ total_tracked_score > 0) =>
          \A row \in Range(results.rows) :
              /\ 2 * (row.sov * total_tracked_score - 10000 * row.score) <= total_tracked_score
              /\ 2 * (10000 * row.score - row.sov * total_tracked_score) <= total_tracked_score

\* two responses were scored and two brands have a positive total
C5_Witness ==
    /\ step = 6
    /\ Len(raw_responses) = 2
    /\ extractor_calls = 2
    /\ analysis_details[1].score > 0
    /\ analysis_details[2].score > 0
    /\ ScoreOf(Acme) > 0
    /\ ScoreOf(Zenith) > 0

NoRepeatedBrand ==
    \A j, k \in DOMAIN final_competitors :
        final_competitors[j] = final_competitors[k] => j = k

RECURSIVE SumSov(_)
SumSov(rows) == IF rows = <<>> THEN 0 ELSE Head(rows).sov + SumSov(Tail(rows))

\* the share shown for brand b (its rows are equal when the list repeats it)
ShareOf(b) == (CHOOSE row \in Range(results.rows) : row.brand = b).sov

Shares == [b \in Tracked |-> ShareOf(b)]

\* C6 as stated, taken for brand lists that repeat no name: the shares of the final
\* table sum to exactly 100 when the denominator is positive and are all 0 when
\* it is 0.
C6_SharesSumToExactly100 ==
    (step = 6 /\ NoRepeatedBrand) =>
        /\ total_tracked_score > 0 => SumSov(results.rows) = 10000
        /\ total_tracked_score = 0 => \A row \in Range(results.rows) : row.sov = 0

\* C6, amended: each share of the final table is rounded to two decimals, so with a
\* positive denominator the shares, each tracked brand counted once, sum to 100 to
\* within 0.005 per brand; with a denominator of 0 every share is 0.
C6_SharesSumTo100WithinRounding ==
    step = 6 =>
        /\ total_tracked_score > 0 =>
              /\ 2 * (SumOver(Shares, Tracked) - 10000) <= Cardinality(Tracked)
              /\ 2 * (10000 - SumOver(Shares, Tracked)) <= Cardinality(Tracked)
        /\ total_tracked_score = 0 => \A row \in Range(results.rows) : row.sov = 0

\* one response, Acme Positive at rank 0 and Zenith Neutral at rank 1: 4.5 and 2.0
\* over 6.5, shares 69.23 and 30.77
C6_Witness ==
    /\ step = 6
    /\ Tracked = {Acme, Zenith}
    /\ total_tracked_score = 650
    /\ results.rows = << [brand |-> Acme, score |-> 450, sov |-> 6923],
                         [brand |-> Zenith, score |-> 200, sov |-> 3077] >>

\* C7: the final table holds exactly one row per tracked brand, and a tracked brand
\* with no contributing mention has total 0 and share 0.
C7_OneRowPerTrackedBrand ==
    step = 6 =>
        \A b \in Tracked :
            /\ Cardinality({k \in DOMAIN results.rows : results.rows[k].brand = b}) = 1
            /\ ScoreOf(b) = 0 =>
                  \A row \in Range(results.rows) :
                      row.brand = b => row.score = 0 /\ row.sov = 0

\* C8: a response that holds the call-failure sentinel gets exactly one audit record
\* with score 0, changes no brand total and not the denominator, causes no call of
\* the external capability, and the loop goes on to the next response.
C8_SentinelSkipped ==
    /\ [][(spc = "loop" /\ idx <= Len(raw_responses)
             /\ raw_responses[idx].answer = SENTINEL) =>
            /\ Len(analysis_details') = Len(analysis_details) + 1
            /\ SubSeq(analysis_details', 1, Len(analysis_details)) = analysis_details
            /\ analysis_details'[Len(analysis_details')].query = raw_responses[idx].query
            /\ analysis_details'[Len(analysis_details')].score = 0
            /\ brand_scores' = brand_scores
            /\ total_tracked_score' = total_tracked_score
            /\ extractor_calls' = extractor_calls
            /\ idx' = idx + 1
            /\ spc' = "loop"]_vars
    /\ [](spc = "loop" =>
            extractor_calls =
               Cardinality({k \in 1..(idx - 1) : raw_responses[k].answer # SENTINEL}))

\* a failed response was skipped and the response after it was analysed and scored
C8_Witness ==
    /\ step = 6
    /\ Len(raw_responses) = 2
    /\ raw_responses[1].answer = SENTINEL
    /\ analysis_details[1].score = 0
    /\ analysis_details[1].details.header = "error"
    /\ analysis_details[2].score > 0
    /\ extractor_calls = 1

----------------------------------------------------------------------------
\* Properties of generate_content_with_retry.

Calls == SelectSeq(trace, LAMBDA e : e.kind = "call")

Sleeps == SelectSeq(trace, LAMBDA e : e.kind = "sleep")

\* k transient failures, each followed by its wait, then the call that returns t
C9_Schedule(k, t) ==
    [i \in 1..(2 * k + 1) |->
        IF i = 2 * k + 1 THEN CallEvent("content", t)
        ELSE IF i % 2 = 1 THEN CallEvent("api_error", "")
        ELSE SleepEvent(Pow2((i \div 2) - 1))]

\* C9: when the provider raises a transient API error on attempts 0..k-1 (k < n) and
\* returns content on attempt k, the caller has made exactly k+1 calls, has waited
\* 2^i after failed attempt i in that order, and returns the text of attempt k.
C9_RetryScheduleUntilSuccess ==
    \A k \in 0..(max_retries - 1) :
        (/\ Len(Calls) >= k + 1
         /\ \A i \in 1..k : Calls[i].outcome = "api_error"
         /\ Calls[k + 1].outcome = "content") =>
            /\ rpc = "done"
            /\ trace = C9_Schedule(k, Calls[k + 1].text)
            /\ result = Returned(Calls[k + 1].text)

\* max_retries 3, failures on attempts 0 and 1: waits of 1 and 2, the third call's text
C9_Witness ==
    /\ max_retries = 3
    /\ rpc = "done"
    /\ result = Returned("text1")
    /\ trace = << CallEvent("api_error", ""), SleepEvent(1),
                  CallEvent("api_error", ""), SleepEvent(2),
                  CallEvent("content", "text1") >>

\* C10: an invocation with max_retries = n >= 1 ends, after at most n calls and at
\* most n-1 waits; when all n attempts fail with a transient API error it returns no
\* result right after the n-th failure, with no wait after it and no further call.
C10_RetryBounded ==
    /\ <>(rpc = "done")
    /\ [](max_retries >= 1 =>
            /\ Len(Calls) <= max_retries
            /\ Len(Sleeps) <= max_retries - 1
            /\ (/\ Len(Calls) = max_retries
                /\ \A i \in 1..max_retries : Calls[i].outcome = "api_error") =>
                   /\ rpc = "done"
                   /\ result = None
                   /\ trace[Len(trace)].kind = "call"
                   /\ Len(Sleeps) = max_retries - 1)

\* three attempts, all failed with a transient API error
C10_Witness ==
    /\ max_retries = 3
    /\ rpc = "done"
    /\ result = None
    /\ Len(Calls) = 3
    /\ Len(Sleeps) = 2
    /\ \A i \in 1..3 : Calls[i].outcome = "api_error"

\* C11: an attempt that ends with an unexpected error or with an empty candidate
\* ends the invocation with no result: that call is the last thing the caller does,
\* no wait follows it and no further call is made, however many retries remain.
C11_NoRetryOnUnexpectedOrEmpty ==
    \A i \in 1..Len(trace) :
        (trace[i].kind = "call" /\ trace[i].outcome \in {"unexpected", "empty_candidate"}) =>
            /\ i = Len(trace)
            /\ rpc = "done"
            /\ result = None

\* with five attempts allowed, the second one ended with an unexpected error
C11_Witness ==
    /\ max_retries = 5
    /\ rpc = "done"
    /\ result = None
    /\ trace = << CallEvent("api_error", ""), SleepEvent(1), CallEvent("unexpected", "") >>

----------------------------------------------------------------------------
\* C12 as stated: over any sequence of user actions the pipeline step never
\* becomes smaller.
C12_StepNeverDecreases == [][step' >= step]_vars

\* C12: the pipeline step changes in two ways only: a stage that completes moves
\* it up by exactly one, and a successful save of the settings sets it to 2 from
\* whatever step the session is at, which lowers it from 3, 4, 5 and 6.
C12_StepRisesByOneOrSaveSetsTwo ==
    [][ /\ step' > step => step' = step + 1
        /\ step' < step => (step' = 2 /\ restarts' = restarts + 1 /\ client')
      ]_vars

C12_Witness ==
    /\ step = 2
    /\ restarts = 2
    /\ results.present
    /\ analysis_details # <<>>

----------------------------------------------------------------------------
\* C13: a session at step 4 whose query list is empty does not start a collection
\* and does not reach step 5, and a session at step 5 with no raw response does not
\* start the analysis and does not reach step 6; in both cases the raw responses,
\* the analysis details and the results stay as they are.  Every step from 4 to 5
\* is taken with at least one query, every step from 5 to 6 with at least one raw
\* response.
C13_NoAdvanceOnEmptyArtifact ==
    [][ /\ (step = 4 /\ final_queries = <<>>) =>
              /\ step' # 5
              /\ spc' = "idle"
              /\ UNCHANGED <<raw_responses, analysis_details, results>>
        /\ (step = 5 /\ raw_responses = <<>>) =>
              /\ step' # 6
              /\ spc' = "idle"
              /\ UNCHANGED <<raw_responses, analysis_details, results>>
        /\ (step = 4 /\ step' = 5) => (final_queries # <<>> /\ raw_responses # <<>>)
        /\ (step = 5 /\ step' = 6) => raw_responses # <<>>
      ]_vars

C13_Witness ==
    /\ step = 4
    /\ spc = "idle"
    /\ client
    /\ final_queries = <<>>
    /\ user_queries = <<>>
    /\ final_competitors # <<>>

----------------------------------------------------------------------------
\* C14 as stated: whatever the structured analysis of a response returns, invalid
\* JSON, a value that is not a list or a list with an element that is not an
\* object, the response leaves the totals and the denominator as they were when its
\* analysis began, gets its record in analysis_details, and the run goes on to the
\* next response until it ends at step 6.
C14_MalformedOutputIsSkippedAndRunCompletes ==
    [][ /\ (spc = "loop" /\ spc' = "loop" /\ extractor_calls' = extractor_calls + 1) =>
              /\ Len(analysis_details') = Len(analysis_details) + 1
              /\ analysis_details'[Len(analysis_details')].score = 0
              /\ UNCHANGED <<brand_scores, total_tracked_score>>
        /\ (spc = "entries" /\ spc' # "entries") =>
              /\ spc' = "loop"
              /\ Len(analysis_details') = Len(analysis_details) + 1
        /\ (spc \in {"loop", "entries"} /\ spc' = "idle") => step' = 6
      ]_vars

----------------------------------------------------------------------------
\* C15: every pass of the collection loop appends exactly one record, carrying the
\* query of that pass and the sentinel when the call failed, and goes on to the next
\* query; when the collection ends at step 5, raw_responses holds one record per
\* query, the i-th with the i-th query, and there is at least one; after that no
\* action but a new collection at step 4 changes raw_responses, the analysis
\* included.
C15_OneRecordPerQueryInOrder ==
    [][ /\ (spc = "collect" /\ idx' = idx + 1) =>
              /\ spc' = "collect"
              /\ Len(raw_responses') = Len(raw_responses) + 1
              /\ SubSeq(raw_responses', 1, Len(raw_responses)) = raw_responses
              /\ raw_responses'[idx].query = final_queries[idx]
              /\ result' = None => raw_responses'[idx].answer = SENTINEL
        /\ (spc = "collect" /\ step' = 5) =>
              /\ Len(final_queries) >= 1
              /\ Len(raw_responses) = Len(final_queries)
              /\ \A i \in 1..Len(final_queries) : raw_responses[i].query = final_queries[i]
              /\ UNCHANGED raw_responses
        /\ raw_responses' # raw_responses => (step = 4 /\ spc' = "collect")
      ]_vars

C15_Witness ==
    /\ step = 6
    /\ results.present
    /\ raw_responses = << Failed(Q1), Answered(Q2) >>
    /\ Len(analysis_details) = 2

----------------------------------------------------------------------------
RECURSIVE SumSeq(_)
SumSeq(s) == IF s = <<>> THEN 0 ELSE Head(s) + SumSeq(Tail(s))

\* the points the lines of one report record give brand b
LinePoints(b, lines) ==
    SumSeq([k \in 1..Len(lines) |-> IF lines[k].brandName = b THEN lines[k].score ELSE 0])

\* the points the report records of the run give brand b
DetailPoints(b) ==
    SumSeq([k \in 1..Len(analysis_details) |-> LinePoints(b, analysis_details[k].details.lines)])

\* C16: every analysis run, a repeated one included, starts with a zero total for
\* each tracked brand, a zero denominator and an empty analysis_details; when it
\* ends, each brand total is the sum of that brand's counted mentions in this run's
\* analysis_details and the denominator is the sum of this run's per-response
\* scores, so the outcome depends on this run's mention lists alone.
C16_EveryRunStartsFromZero ==
    [][ /\ (spc = "idle" /\ spc' = "loop") =>
              /\ DOMAIN brand_scores' = Range(final_competitors)
              /\ \A b \in DOMAIN brand_scores' : brand_scores'[b] = 0
              /\ total_tracked_score' = 0
              /\ analysis_details' = <<>>
        /\ (step = 5 /\ step' = 6) =>
              /\ Len(analysis_details) = Len(raw_responses)
              /\ \A b \in DOMAIN brand_scores : brand_scores[b] = DetailPoints(b)
              /\ total_tracked_score =
                     SumSeq([k \in 1..Len(analysis_details) |-> analysis_details[k].score])
      ]_vars

\* a second run has begun: the table of the first run shows a positive total
C16_Witness ==
    /\ spc = "loop"
    /\ idx = 1
    /\ restarts = 2
    /\ analysis_details = <<>>
    /\ results.present
    /\ \E row \in Range(results.rows) : row.score > 0
    /\ brand_scores = [b \in {Acme} |-> 0]

----------------------------------------------------------------------------
\* the record the analysis appends for the current response when the structured
\* output is a well-formed list without a counted mention
ZeroMentionDetail == Detail(raw_responses[idx], FormatDetails(<<>>), 0)

\* C17 as stated: the record appended for a response whose extraction failed (no
\* result from the caller, or output that is not a JSON list) differs from the
\* record the same response gets when the extraction succeeds without a counted
\* mention.
C17_FailedExtractionIsMarked ==
    [][ (spc = "loop" /\ spc' = "loop" /\ extractor_calls' = extractor_calls + 1) =>
            analysis_details'[Len(analysis_details')] # ZeroMentionDetail
      ]_vars

----------------------------------------------------------------------------
\* C18 as stated: the record a pass of the collection loop appends holds the
\* sentinel exactly when the call of that pass failed; a call that succeeded with
\* an empty text is stored with its empty text.
C18_SentinelIffCallFailed ==
    [][ (spc = "collect" /\ idx' = idx + 1) =>
            /\ raw_responses'[idx].answer = SENTINEL <=> result' = None
            /\ result' # None => raw_responses'[idx].answer = result'.text
      ]_vars

----------------------------------------------------------------------------
\* C19 as stated: in every state with step >= 4 the tracked-brand list is not empty
\* and holds the own brand.
C19_TrackedBrandsAlwaysHoldOwnBrand ==
    step >= 4 => (final_competitors # <<>> /\ Strip(brand) \in Range(final_competitors))

\* C19: the discovery that moves the session to step 4 leaves a brand list that is
\* not empty and holds the trimmed own brand, and the list is not empty while an
\* analysis runs; between the two the user's text decides, and it may drop the own
\* brand or every brand.
C19_OwnBrandAfterDiscoveryAndBrandsWhileScoring ==
    [][ /\ (step = 3 /\ step' = 4) =>
              /\ StripNonEmpty(Split(competitors', ",")) # <<>>
              /\ Strip(brand) \in Range(StripNonEmpty(Split(competitors', ",")))
        /\ spc \in {"loop", "entries"} => final_competitors # <<>>
        /\ (step = 5 /\ step' = 6) => final_competitors # <<>>
      ]_vars

\* an analysis runs on a list the user cut down to a competitor
C19_Witness ==
    /\ spc = "loop"
    /\ idx = 2
    /\ Strip(brand) = Acme
    /\ final_competitors = << Zenith >>

----------------------------------------------------------------------------
\* C20 as stated: with an empty tracked-brand list the session moves neither from
\* step 4 to step 5 nor from step 5 to step 6.
C20_EmptyBrandListBlocksCollectAndScoring ==
    [][ final_competitors = <<>> => (~(step = 4 /\ step' = 5) /\ ~(step = 5 /\ step' = 6)) ]_vars

\* C20: with an empty tracked-brand list the analysis does not start and the
\* session does not move from step 5 to step 6, and the raw responses, the analysis
\* details and the results stay as they are; the collection does not look at the
\* brand list.
C20_EmptyBrandListBlocksScoring ==
    [][ (step = 5 /\ spc = "idle" /\ final_competitors = <<>>) =>
            /\ step' # 6
            /\ spc' = "idle"
            /\ UNCHANGED <<raw_responses, analysis_details, results>>
      ]_vars

\* a collection that began with an empty brand list has stored its first record
C20_Witness ==
    /\ spc = "collect"
    /\ step = 4
    /\ idx = 2
    /\ Len(raw_responses) = 1
    /\ final_competitors = <<>>

----------------------------------------------------------------------------
\* what is left of an earlier run is gone after the step
DownstreamIsReset ==
    /\ raw_responses' = <<>>
    /\ analysis_details' = <<>>
    /\ results' = NoResults

\* C21 as stated: once an analysis has been completed, saving the settings again,
\* generating the queries again or starting a new collection leaves no raw
\* response, no analysis detail and no result of the earlier run in the session.
C21_RerunResetsDownstream ==
    [][ results.present =>
            /\ restarts' = restarts + 1 => DownstreamIsReset
            /\ (step = 2 /\ step' = 3) => DownstreamIsReset
            /\ (step = 4 /\ spc = "idle" /\ spc' = "collect") => DownstreamIsReset
      ]_vars

----------------------------------------------------------------------------
\* the orders in which n responses can be processed
Orders(n) == {p \in [1..n -> 1..n] : \A i, j \in 1..n : p[i] = p[j] => i = j}

Permuted(s, p) == [k \in 1..Len(s) |-> s[p[k]]]

RECURSIVE AddLines(_, _)
\* brand_scores[name] += score for the counted mentions of one response
AddLines(scores, lines) ==
    IF lines = <<>> THEN scores
    ELSE AddLines([scores EXCEPT ![Head(lines).brandName] = @ + Head(lines).score],
                  Tail(lines))

RECURSIVE Accumulate(_, _, _)
\* the accumulators after the loop has gone over the responses whose counted
\* mentions and per-response scores the records hold, first to last
Accumulate(scores, total, records) ==
    IF records = <<>> THEN [brand_scores |-> scores, total_tracked_score |-> total]
    ELSE Accumulate(AddLines(scores, Head(records).details.lines),
                    AddToTotal(total, Head(records).score),
                    Tail(records))

\* C22: when a run has ended, going over its responses in any other order, with the
\* same mention list for each response and the same tracked brands, gives the brand
\* totals, the denominator and the shares the run has computed.
C22_TotalsIndependentOfResponseOrder ==
    step = 6 =>
        \A p \in Orders(Len(analysis_details)) :
            LET acc == Accumulate(ZeroScores, 0, Permuted(analysis_details, p))
            IN  /\ acc.brand_scores = brand_scores
                /\ acc.total_tracked_score = total_tracked_score
                /\ \A row \in Range(results.rows) :
                      /\ row.score = acc.brand_scores[row.brand]
                      /\ row.sov = Sov(acc.brand_scores[row.brand], acc.total_tracked_score)

\* two responses with different counted mentions and different scores
C22_Witness ==
    /\ step = 6
    /\ Len(analysis_details) = 2
    /\ analysis_details[1].score = 650
    /\ analysis_details[2].score = 300
    /\ analysis_details[1].details.lines # analysis_details[2].details.lines
    /\ total_tracked_score = 950

----------------------------------------------------------------------------
\* C23: a step that raises the pipeline step raises it by exactly one, and each
\* stage is entered from the stage before it and by that stage's own action: step 3
\* from step 2, step 4 from step 3 with a query at hand, step 5 from step 4 at the
\* end of a collection, step 6 from step 5 at the end of an analysis; a collection
\* runs at step 4 only and an analysis at step 5 only.
C23_NoStageSkipped ==
    [][ /\ step' > step => step' = step + 1
        /\ (step' # step /\ step' = 3) => (step = 2 /\ spc = "idle")
        /\ (step' # step /\ step' = 4) => (step = 3 /\ spc = "idle" /\ final_queries # <<>>)
        /\ (step' # step /\ step' = 5) => (step = 4 /\ spc = "collect")
        /\ (step' # step /\ step' = 6) => (step = 5 /\ spc = "loop")
        /\ spc' = "collect" => step = 4
        /\ spc' \in {"loop", "entries"} => step = 5
      ]_vars

\* the second pass of a session through the stages has reached step 3
C23_Witness ==
    /\ step = 3
    /\ restarts = 2
    /\ results.present
    /\ result = Returned("text1")
    /\ user_queries = <<"q1", "\n", "q2">>

----------------------------------------------------------------------------
\* C24 as stated: every line of every audit detail shows the position, counted from
\* 1, of the rank its score was computed from: the score of the line is the score
\* the scoring law gives the rank one below the shown position and the line's
\* sentiment.
C24_AuditPositionIsScoringRank ==
    \A k \in DOMAIN analysis_details :
        \A line \in Range(analysis_details[k].details.lines) :
            /\ line.position >= 1
            /\ line.score = FinalScore(line.position - 1, line.sentiment)

----------------------------------------------------------------------------
\* C25: in every state with step = 6 the results are present, there is at least one
\* raw response, and analysis_details holds exactly one record per raw response, in
\* the same order, with that response's query and answer; the records are those of
\* the run that reached step 6: it asked for one structured analysis per response
\* that does not hold the sentinel.
C25_ReportMatchesResponsesAtStepSix ==
    step = 6 =>
        /\ results.present
        /\ raw_responses # <<>>
        /\ Len(analysis_details) = Len(raw_responses)
        /\ \A k \in 1..Len(raw_responses) :
              /\ analysis_details[k].query = raw_responses[k].query
              /\ analysis_details[k].answer = raw_responses[k].answer
        /\ extractor_calls =
              Cardinality({k \in 1..Len(raw_responses) : raw_responses[k].answer # SENTINEL})

\* the second pass of a session has ended
C25_Witness ==
    /\ step = 6
    /\ spc = "idle"
    /\ restarts = 2
    /\ raw_responses = << Answered(Q1), Failed(Q2) >>
    /\ extractor_calls = 1
    /\ results.present

====
